---- MODULE Spec2Model ----
(***************************************************************************)
(* Bulk topic labelling of a Wikidata JSON dump                            *)
(* (bulk/wikidata_ids_to_topics_dumps.py): the generator                   *)
(* loop_through_wd_dump reads the archive line by line, parses, filters    *)
(* and tokenizes each item; main() scores the token string with the        *)
(* fastText classifier, adjusts the scores, aggregates them per top-level  *)
(* category, thresholds, and appends one record to the output file.        *)
(*                                                                         *)
(* Probabilities are exact fixed-point numbers: a fine-label score p is    *)
(* the integer p * Scale; an aggregated score is a pair <<n, d>> standing  *)
(* for n / d; a rounded (emitted) score is an integer count of 1/10000.    *)
(* Strings the code slices or splits are sequences of their pieces: a      *)
(* label '__label__STEM.Technology' is <<"__label__","STEM",".",           *)
(* "Technology">>, a site key 'enwiki' is [pre |-> "en", suf |-> "wiki"],  *)
(* an archive line is the sequence of its characters with an item's body   *)
(* standing as one piece between its braces.                               *)
(***************************************************************************)
EXTENDS Integers, Sequences, FiniteSets, TLC

\* Longest archive the model reads.
MaxLines == 3

\* One probability unit is 1/Scale (0.501 has three decimals).
Scale == 1000
\* 0.501, the amount subtracted by the human and no-coordinates rules.
Reduction == 501
\* round(x, 4): emitted probabilities are counts of 1/RoundUnit.
RoundUnit == 10000
\* --threshold default 0.5, in units of 1/RoundUnit.
DefaultThreshold == 5000
\* progress is printed every LogEvery lines / items.
LogEvery == 100000

Max(a, b) == IF a >= b THEN a ELSE b

Missing == "<missing>"
ParseError == "<JSONDecodeError>"

(***************************************************************************)
(* Items of the archive.                                                   *)
(***************************************************************************)
StItem(v) == [type |-> "statement", datatype |-> "wikibase-item", value |-> v]
StCoord == [type |-> "statement", datatype |-> "globe-coordinate", value |-> "coordinate"]
StNoValue == [type |-> "statement", datatype |-> "wikibase-item", value |-> Missing]
StNoType == [type |-> Missing, datatype |-> "wikibase-item", value |-> "Q5"]

Claim(p, sts) == [property |-> p, statements |-> sts]
Link(pre, suf, title) == [pre |-> pre, suf |-> suf, title |-> title]
Item(id, sitelinks, claims) == [id |-> id, sitelinks |-> sitelinks, claims |-> claims]

EnLink == <<Link("en", "wiki", "Ada")>>

\* The items an archive line can carry, by the name standing for their body.
ItemBody(name) ==
    CASE name = "A" -> Item("Q1", EnLink,
                            <<Claim("P31", <<StItem("Q5"), StNoType>>), Claim("P625", <<StCoord>>)>>)
      [] name = "B" -> Item("Q2", <<Link("commons", "wiki", "Bee"), Link("de", "wiki", "Biene")>>, <<>>)
      [] name = "C" -> Item("Q1", <<Link("commons", "wiki", "Cat"), Link("en", "wikiquote", "Cat")>>,
                            <<Claim("P360", <<StNoValue>>)>>)
      [] name = "H" -> Item("Q10", EnLink, <<Claim("P31", <<StItem("Q5")>>)>>)
      [] name = "D" -> Item("Q11", EnLink, <<Claim("P31", <<StItem("Q4167410")>>)>>)
      [] name = "L" -> Item("Q12", EnLink,
                            <<Claim("P31", <<StItem("Q13406463")>>), Claim("P625", <<StCoord>>)>>)
      [] name = "S" -> Item("Q13", EnLink, <<Claim("P360", <<StNoValue>>)>>)
      [] name = "G" -> Item("Q14", EnLink, <<Claim("P625", <<StCoord>>)>>)
      [] name = "X" -> Item("Q15", EnLink, <<Claim("P31", <<StItem("Q4167410"), StItem("Q5")>>)>>)
      [] name = "Y" -> Item("Q16", EnLink,
                            <<Claim("P31", <<StItem("Q13406463"), StItem("Q5")>>), Claim("P625", <<>>)>>)
      [] name = "N" -> Item("Q17", EnLink, <<>>)
      [] name = "P" -> Item("Q18", EnLink, <<Claim("P279", <<StItem("Q7")>>)>>)
      [] name = "K" -> Item("Q19", EnLink, <<Claim("P625", <<StItem("Q2")>>)>>)
      [] name = "Z" -> Item("Q20", EnLink, <<Claim("P360", <<StItem("Q5")>>), Claim("P18", <<StCoord>>)>>)

\* Items of the archives the whole pipeline is run on.
ArchiveItems == {"A", "B", "C", "G"}
\* Items a single scoring pass is run on.
ScoreItems == {"A", "H", "D", "L", "S", "G", "X", "Y", "N", "P", "K", "Z"}
ItemNames == ArchiveItems \cup ScoreItems

(***************************************************************************)
(* Archive lines and json.loads.                                           *)
(***************************************************************************)
Whitespace == {"\n", " "}

ItemLine(b) == <<"{", b, "}", ",", "\n">>
LastItemLine(b) == <<"{", b, "}", "\n">>
OpenBracketLine == <<"[", "\n">>
TruncatedLine(b) == <<"{", b, "\n">>

Lines == {ItemLine(b) : b \in ArchiveItems}
            \cup {LastItemLine("A"), OpenBracketLine, TruncatedLine("B")}

RECURSIVE LStrip(_)
LStrip(s) == IF s # <<>> /\ Head(s) \in Whitespace THEN LStrip(Tail(s)) ELSE s

RECURSIVE RStrip(_)
RStrip(s) ==
    IF s # <<>> /\ s[Len(s)] \in Whitespace THEN RStrip(SubSeq(s, 1, Len(s) - 1)) ELSE s

\* json.loads(s): the item whose body stands between the braces, or an error.
JsonLoads(s) ==
    LET t == LStrip(RStrip(s))
    IN IF Len(t) = 3 /\ t[1] = "{" /\ t[3] = "}" /\ t[2] \in ItemNames
       THEN t[2] ELSE ParseError

\* Mutant: the second attempt, on the whole line, is forgotten.
ParseLine_NoRetry(line) == JsonLoads(SubSeq(line, 1, Len(line) - 2))

\* json.loads(line[:-2]), and on any exception json.loads(line).
ParseLine(line) ==
    LET first == JsonLoads(SubSeq(line, 1, Len(line) - 2))
    IN IF first # ParseError THEN first ELSE JsonLoads(line)

(***************************************************************************)
(* Filtering.                                                              *)
(***************************************************************************)
\* titles: {l[:-4]: title for l in sitelinks if l.endswith('wiki') and
\*          l != 'commonswiki' and l != 'specieswiki'}
RECURSIVE Titles(_)
Titles(sitelinks) ==
    IF sitelinks = <<>> THEN <<>>
    ELSE LET l == Head(sitelinks)
             keep == l.suf = "wiki" /\ l.pre # "commons" /\ l.pre # "species"
         IN (IF keep THEN <<[lang |-> l.pre, title |-> l.title]>> ELSE <<>>)
                \o Titles(Tail(sitelinks))

TitleLangs(titles) == {titles[i].lang : i \in 1..Len(titles)}

\* The verdict of lines 141-149 on an item: "reject" (continue), "accept",
\* or "crash": sites is still a list when an allow-set was given, and a list
\* has no intersection method.
FilterVerdict(item, q, s) ==
    IF q.given /\ item.id \notin q.ids THEN "reject"
    ELSE IF Titles(item.sitelinks) = <<>> THEN "reject"
    ELSE IF s.kind = "none" THEN "accept"
    ELSE IF s.kind = "list" THEN "crash"
    ELSE IF s.elems \cap TitleLangs(Titles(item.sitelinks)) = {} THEN "reject"
    ELSE "accept"

(***************************************************************************)
(* Claim tuples and signals.                                               *)
(***************************************************************************)
disamb_list_vals == {"Q4167410", "Q13406463"}

NoClaim == <<"<NOCLAIM>">>

\* The loop over the statements of one property (lines 158-170).
RECURSIVE ScanStatements(_, _, _)
ScanStatements(property, statements, acc) ==
    IF statements = <<>> THEN acc
    ELSE LET st == Head(statements)
             raises == \/ st.type = Missing
                       \/ /\ st.type = "statement"
                          /\ \/ st.datatype = Missing
                             \/ st.datatype = "wikibase-item" /\ st.value = Missing
             qualifies == /\ st.type = "statement"
                          /\ st.datatype = "wikibase-item"
                          /\ st.value # Missing
             next == IF raises THEN [acc EXCEPT !.indexerror = @ + 1]
                     ELSE IF qualifies
                     THEN [acc EXCEPT
                             !.claim_tuples = Append(@, <<property, st.value>>),
                             !.included = TRUE,
                             !.disamb_list = @ \/ (property = "P31" /\ st.value \in disamb_list_vals),
                             !.human = @ \/ (property = "P31" /\ st.value \notin disamb_list_vals
                                                /\ st.value = "Q5")]
                     ELSE acc
         IN ScanStatements(property, Tail(statements), next)

\* The loop over the properties of the claim map (lines 156-176).
RECURSIVE ScanClaims(_, _)
ScanClaims(claims, acc) ==
    IF claims = <<>> THEN acc
    ELSE LET c == Head(claims)
             a == ScanStatements(c.property, c.statements, [acc EXCEPT !.included = FALSE])
             next == IF a.included THEN a
                     ELSE [a EXCEPT
                             !.claim_tuples = Append(@, <<c.property>>),
                             !.has_coords = @ \/ c.property = "P625",
                             !.disamb_list = @ \/ (c.property # "P625" /\ c.property = "P360")]
         IN ScanClaims(Tail(claims), next)

\* Mutant: the sentinel is not substituted.
ExtractClaims_NoSentinel(claims) ==
    ScanClaims(claims, [claim_tuples |-> <<>>, included |-> FALSE,
                        disamb_list |-> FALSE, has_coords |-> FALSE,
                        human |-> FALSE, indexerror |-> 0])

\* Lines 151-178: the claim tuples, the three signals and the statement errors.
ExtractClaims(claims) ==
    LET a == ScanClaims(claims, [claim_tuples |-> <<>>, included |-> FALSE,
                                 disamb_list |-> FALSE, has_coords |-> FALSE,
                                 human |-> FALSE, indexerror |-> 0])
    IN IF Len(a.claim_tuples) = 0 THEN [a EXCEPT !.claim_tuples = <<NoClaim>>] ELSE a

Perms(n) == {f \in [1..n -> 1..n] : \A i, j \in 1..n : f[i] = f[j] => i = j}

RECURSIVE Flatten(_)
Flatten(ss) == IF ss = <<>> THEN <<>> ELSE Head(ss) \o Flatten(Tail(ss))

\* ' '.join(' '.join(c) for c in sample(claims_tuples, len(claims_tuples))):
\* the tokens of the tuples taken in the sampled order f.
tuple_to_ft_format(claim_tuples, f) ==
    Flatten([i \in 1..Len(claim_tuples) |-> claim_tuples[f[i]]])

(***************************************************************************)
(* Labels and the classifier.                                              *)
(***************************************************************************)
LabelPrefix == "__label__"
FtLabel(top, sub) == <<LabelPrefix, top, ".", sub>>

ListDisambigLabel == FtLabel("Compilation", "List_Disambig")
LangLitLabel == FtLabel("Culture", "Language_and_literature")
EuropeLabel == FtLabel("Geography", "Europe")
TechnologyLabel == FtLabel("STEM", "Technology")
EngineeringLabel == FtLabel("STEM", "Engineering")

\* The keys main() writes itself, without the prefix.
ListDisambigKey == <<"Compilation", ".", "List_Disambig">>
PersonKey == <<"Person">>

\* model.get_labels(): the label set is the loaded model's. The code relies
\* on Culture.Language_and_literature being a label (line 74); whether the
\* model also scores Compilation.List_Disambig is the model's business.
TopicLabels == <<LangLitLabel, EuropeLabel, TechnologyLabel, EngineeringLabel>>
LabelSets == {TopicLabels, <<ListDisambigLabel>> \o TopicLabels}

\* Scores the classifier may give a label.
ScoreValues(l) ==
    IF l = TechnologyLabel THEN {420, 600}
    ELSE IF l = EngineeringLabel THEN {138, 400}
    ELSE IF l = ListDisambigLabel THEN {300}
    ELSE {0, 500, 501, 502, 1000}

\* Every score vector model.predict(text, k=-1) may return for the labels.
RECURSIVE AnyScores(_)
AnyScores(labels) ==
    IF labels = <<>> THEN {<<>>}
    ELSE {<<v>> \o s : v \in ScoreValues(Head(labels)), s \in AnyScores(Tail(labels))}

\* The two score vectors of the stub classifier the whole pipeline runs with.
StubScores(labels) ==
    {s \in AnyScores(labels) :
        /\ \A i \in 1..Len(labels) : labels[i] = TechnologyLabel => s[i] = 600
        /\ \A i \in 1..Len(labels) : labels[i] = EngineeringLabel => s[i] = 400
        /\ \A i \in 1..Len(labels) : labels[i] = LangLitLabel => s[i] = 502
        /\ \A i \in 1..Len(labels) : labels[i] = EuropeLabel => s[i] \in {500, 1000}}

(***************************************************************************)
(* Python dicts keep insertion order: a dict is the sequence of its        *)
(* [k, v] entries.                                                         *)
(***************************************************************************)
DictHas(d, k) == \E i \in 1..Len(d) : d[i].k = k
DictGet(d, k) == d[CHOOSE i \in 1..Len(d) : d[i].k = k].v
DictGetOr(d, k, default) == IF DictHas(d, k) THEN DictGet(d, k) ELSE default
DictSet(d, k, v) ==
    IF DictHas(d, k)
    THEN [i \in 1..Len(d) |-> IF d[i].k = k THEN [k |-> k, v |-> v] ELSE d[i]]
    ELSE Append(d, [k |-> k, v |-> v])

\* {l: s for l, s in zip(lbls, scores)}
RECURSIVE ZipDict(_, _)
ZipDict(ls, ss) ==
    IF ls = <<>> \/ ss = <<>> THEN <<>>
    ELSE DictSet(ZipDict(SubSeq(ls, 1, Len(ls) - 1), SubSeq(ss, 1, Len(ss) - 1)),
                 ls[Len(ls)], ss[Len(ss)])

(***************************************************************************)
(* Score adjustment (lines 68-80).                                         *)
(***************************************************************************)
\* Mutant: 0.5 is subtracted instead of 0.501.
Reduce_ByHalf(p) == Max(0, p - (Reduction - 1))

\* max(0, p - 0.501)
Reduce(p) == Max(0, p - Reduction)

\* k.startswith('__label__Geography')
IsGeoKey(k) == Len(k) >= 2 /\ k[1] = LabelPrefix /\ k[2] = "Geography"

\* lines 68-70
AdjustDisamb(res, disamb) ==
    IF disamb THEN DictSet(res, ListDisambigKey, Scale) ELSE res

\* Mutant: Person is set, the literature score is left as it is.
AdjustHuman_NoReduce(res, hum) == IF hum THEN DictSet(res, PersonKey, Scale) ELSE res

\* lines 71-75; results[l] raises KeyError when l is no key.
HumanRaises(res, hum) == hum /\ ~DictHas(res, LangLitLabel)
AdjustHuman(res, hum) ==
    IF hum
    THEN DictSet(DictSet(res, LangLitLabel, Reduce(DictGet(res, LangLitLabel))), PersonKey, Scale)
    ELSE res

\* Mutant: the test on has_coords is inverted.
AdjustGeo_Inverted(res, coords) ==
    IF coords
    THEN [i \in 1..Len(res) |->
            IF IsGeoKey(res[i].k) THEN [k |-> res[i].k, v |-> Max(0, res[i].v - Reduction)]
            ELSE res[i]]
    ELSE res

\* lines 76-80
AdjustGeo(res, coords) ==
    IF ~coords
    THEN [i \in 1..Len(res) |->
            IF IsGeoKey(res[i].k) THEN [k |-> res[i].k, v |-> Reduce(res[i].v)] ELSE res[i]]
    ELSE res

(***************************************************************************)
(* Top-level aggregation (lines 87-91, 105-107).                           *)
(***************************************************************************)
\* l.replace('__label__', '')
StripPrefix(l) == SelectSeq(l, LAMBDA t : t # LabelPrefix)

\* s.split('.')[0]
RECURSIVE BeforeFirstDot(_)
BeforeFirstDot(s) ==
    IF s = <<>> \/ Head(s) = "." THEN <<>> ELSE <<Head(s)>> \o BeforeFirstDot(Tail(s))

ft_to_toplevel(fasttext_lbl) == BeforeFirstDot(StripPrefix(fasttext_lbl))

\* Mutant: the probabilities are multiplied, not their complements.
HlcStep_NoComplement(acc, p) == <<acc[1] * p, acc[2] * Scale>>

\* hlc_results.get(hlc, 1) * (1 - results[l]), as a fraction <<n, d>>
HlcStep(acc, p) == <<acc[1] * (Scale - p), acc[2] * Scale>>

\* the loop of lines 88-90 over the entries of results
RECURSIVE HlcLoop(_, _)
HlcLoop(res, hlc) ==
    IF res = <<>> THEN hlc
    ELSE LET c == ft_to_toplevel(Head(res).k)
         IN HlcLoop(Tail(res), DictSet(hlc, c, HlcStep(DictGetOr(hlc, c, <<1, 1>>), Head(res).v)))

\* line 91: {l: 1 - p for l, p in hlc_results.items()}
HlcComplement(hlc) ==
    [i \in 1..Len(hlc) |-> [k |-> hlc[i].k, v |-> <<hlc[i].v[2] - hlc[i].v[1], hlc[i].v[2]>>]]

HlcResults(res) == HlcComplement(HlcLoop(res, <<>>))

(***************************************************************************)
(* Sorting, rounding, thresholding (lines 94-98).                          *)
(***************************************************************************)
\* a < b for fractions whose denominators are powers of Scale
FracLess(a, b) ==
    LET d == Max(a[2], b[2])
    IN a[1] * (d \div a[2]) < b[1] * (d \div b[2])

\* sorted(d, key=d.get, reverse=True): descending, equal keys in their
\* original order. The entries of d with the values as fractions.
RECURSIVE InsertDesc(_, _)
InsertDesc(sorted, e) ==
    IF sorted = <<>> THEN <<e>>
    ELSE IF FracLess(Head(sorted).v, e.v) THEN <<e>> \o sorted
    ELSE <<Head(sorted)>> \o InsertDesc(Tail(sorted), e)

RECURSIVE SortedDesc(_)
SortedDesc(d) ==
    IF d = <<>> THEN <<>>
    ELSE InsertDesc(SortedDesc(SubSeq(d, 1, Len(d) - 1)), d[Len(d)])

\* round(n / d, 4) in units of 1/RoundUnit, halves to the even neighbour
Round4(f) ==
    IF f[2] <= RoundUnit
    THEN f[1] * (RoundUnit \div f[2])
    ELSE LET step == f[2] \div RoundUnit
             q == f[1] \div step
             r == f[1] % step
         IN IF 2 * r > step \/ (2 * r = step /\ q % 2 = 1) THEN q + 1 ELSE q

AsFractions(res) == [i \in 1..Len(res) |-> [k |-> res[i].k, v |-> <<res[i].v, Scale>>]]

\* lines 94-95: [(name, round(p, 4)) for each key in descending order]
Ranked(d) ==
    LET s == SortedDesc(d)
    IN [i \in 1..Len(s) |-> [l |-> StripPrefix(s[i].k), p |-> Round4(s[i].v)]]

\* Mutant: >=, as the message printed at line 60 has it.
AboveThreshold_OrEqual(p, t) == p >= t

\* p > args.threshold
AboveThreshold(p, t) == p > t

\* lines 96-98
Thresholded(ranked, t) ==
    IF t > 0 THEN SelectSeq(ranked, LAMBDA e : AboveThreshold(e.p, t)) ELSE ranked

(***************************************************************************)
(* The state of a run.                                                     *)
(***************************************************************************)
VARIABLES
    pc,               \* where the run stands
    qids,             \* wd_items_to_query: the allow-set, if --input_qids was given
    sites,            \* --wiki_filter, as loop_through_wd_dump holds it
    threshold,        \* --threshold, in units of 1/RoundUnit
    model_labels,     \* the labels of the loaded fastText model
    lines,            \* the archive lines read so far
    idx,              \* number of the line last read
    item_json,        \* the item parsed from it
    qid, titles,      \* its identifier and wiki titles
    claims_str,       \* its token string, as the sequence of its tokens
    disamb_list, has_coords, human,
    items_written, indexerror, items_processed,
    lbls, scores,     \* what model.predict returned
    results,          \* label -> probability
    hlc_results,      \* top-level category -> probability
    out,              \* the records written to the output file
    log               \* the error and progress lines printed

config == <<qids, threshold, model_labels>>
reader == <<lines, idx, item_json>>
item_vars == <<qid, titles>>
signal_vars == <<claims_str, disamb_list, has_coords, human>>
gen_counters == <<items_written, indexerror>>
score_vars == <<lbls, scores, results, hlc_results>>
vars == <<pc, config, sites, reader, item_vars, signal_vars, gen_counters,
          items_processed, score_vars, out, log>>

NoAllowSet == [given |-> FALSE, ids |-> {}]
NoSites == [kind |-> "none", elems |-> {}]

QidsArgs == {NoAllowSet, [given |-> TRUE, ids |-> {"Q1"}], [given |-> TRUE, ids |-> {"Q1", "Q2"}]}
SitesArgs == {NoSites, [kind |-> "list", elems |-> {"en"}], [kind |-> "list", elems |-> {"de", "fr"}]}
Thresholds == {0, DefaultThreshold}

\* The values of the per-item variables before the first item.
Unset ==
    /\ item_json = "" /\ qid = "" /\ titles = <<>>
    /\ claims_str = <<>> /\ disamb_list = FALSE /\ has_coords = FALSE /\ human = FALSE
    /\ lbls = <<>> /\ scores = <<>> /\ results = <<>> /\ hlc_results = <<>>

\* main() has parsed its arguments, loaded the model and the allow-set.
Init ==
    /\ pc = "start"
    /\ qids \in QidsArgs
    /\ sites \in SitesArgs
    /\ threshold \in Thresholds
    /\ model_labels \in LabelSets
    /\ lines = <<>> /\ idx = 0
    /\ Unset
    /\ items_written = 0 /\ indexerror = 0 /\ items_processed = 0
    /\ out = <<>> /\ log = <<>>

\* loop_through_wd_dump up to the first line (lines 113-127): the site filter
\* becomes a set only when no allow-set was given.
Start ==
    /\ pc = "start"
    /\ sites' = IF ~qids.given /\ sites.kind = "list" THEN [sites EXCEPT !.kind = "set"] ELSE sites
    /\ pc' = "read"
    /\ UNCHANGED <<config, reader, item_vars, signal_vars, gen_counters, items_processed,
                   score_vars, out, log>>

\* One line of the archive is read and parsed (lines 128-138).
ReadLine ==
    /\ pc = "read"
    /\ idx < MaxLines
    /\ \E line \in Lines :
        LET parsed == ParseLine(line)
        IN /\ lines' = Append(lines, line)
           /\ idx' = idx + 1
           /\ IF parsed = ParseError
              THEN /\ log' = Append(log, [kind |-> "Error", n |-> idx + 1])
                   /\ pc' = "read"
                   /\ UNCHANGED item_json
              ELSE /\ item_json' = parsed
                   /\ log' = IF (idx + 1) % LogEvery = 0
                             THEN Append(log, [kind |-> "lines processed", n |-> idx + 1])
                             ELSE log
                   /\ pc' = "filter"
    /\ UNCHANGED <<config, sites, item_vars, signal_vars, gen_counters, items_processed,
                   score_vars, out>>

\* The filters of lines 141-149.
Filter ==
    /\ pc = "filter"
    /\ LET item == ItemBody(item_json)
           verdict == FilterVerdict(item, qids, sites)
       IN /\ qid' = item.id
          /\ titles' = IF qids.given /\ item.id \notin qids.ids
                       THEN titles ELSE Titles(item.sitelinks)
          /\ pc' = IF verdict = "accept" THEN "extract"
                   ELSE IF verdict = "reject" THEN "read" ELSE "crashed"
    /\ UNCHANGED <<config, sites, reader, signal_vars, gen_counters, items_processed,
                   score_vars, out, log>>

\* The claims of the item become tuples, signals and the token string, and
\* the item is yielded (lines 151-179).
Extract ==
    /\ pc = "extract"
    /\ LET e == ExtractClaims(ItemBody(item_json).claims)
       IN /\ disamb_list' = e.disamb_list
          /\ has_coords' = e.has_coords
          /\ human' = e.human
          /\ indexerror' = indexerror + e.indexerror
          /\ \E f \in Perms(Len(e.claim_tuples)) :
                claims_str' = tuple_to_ft_format(e.claim_tuples, f)
    /\ pc' = "yielded"
    /\ UNCHANGED <<config, sites, reader, item_vars, items_written, items_processed,
                   score_vars, out, log>>

\* lines 63-66: the classifier scores the token string.
Predict(vectors) ==
    /\ pc = "yielded"
    /\ items_processed' = items_processed + 1
    /\ \E s \in vectors :
        /\ lbls' = model_labels
        /\ scores' = s
        /\ results' = ZipDict(model_labels, s)
    /\ pc' = "predicted"
    /\ UNCHANGED <<config, sites, reader, item_vars, signal_vars, gen_counters,
                   hlc_results, out, log>>

PredictStub == Predict(StubScores(model_labels))
PredictAny == Predict(AnyScores(model_labels))

\* lines 68-80: the three rules.
Adjust ==
    /\ pc = "predicted"
    /\ LET r1 == AdjustDisamb(results, disamb_list)
       IN IF HumanRaises(r1, human)
          THEN results' = r1 /\ pc' = "crashed"
          ELSE /\ results' = AdjustGeo(AdjustHuman(r1, human), has_coords)
               /\ pc' = "adjusted"
    /\ UNCHANGED <<config, sites, reader, item_vars, signal_vars, gen_counters,
                   items_processed, lbls, scores, hlc_results, out, log>>

\* lines 87-91
Aggregate ==
    /\ pc = "adjusted"
    /\ hlc_results' = HlcResults(results)
    /\ pc' = "aggregated"
    /\ UNCHANGED <<config, sites, reader, item_vars, signal_vars, gen_counters,
                   items_processed, lbls, scores, results, out, log>>

\* lines 94-99
OutputJson ==
    [qid |-> qid, titles |-> titles,
     predicted_mid_labels |-> Thresholded(Ranked(AsFractions(results)), threshold),
     predicted_top_labels |-> Thresholded(Ranked(hlc_results), threshold)]

\* Mutant: the record replaces what the file held.
Write_Overwrite ==
    /\ pc = "aggregated"
    /\ out' = <<OutputJson>>
    /\ log' = IF items_processed % LogEvery = 0
              THEN Append(log, [kind |-> "items processed", n |-> items_processed])
              ELSE log
    /\ pc' = "read"
    /\ UNCHANGED <<config, sites, reader, item_vars, signal_vars, gen_counters,
                   items_processed, score_vars>>

\* lines 94-103: the record is written and the generator is resumed.
Write ==
    /\ pc = "aggregated"
    /\ out' = Append(out, OutputJson)
    /\ log' = IF items_processed % LogEvery = 0
              THEN Append(log, [kind |-> "items processed", n |-> items_processed])
              ELSE log
    /\ pc' = "read"
    /\ UNCHANGED <<config, sites, reader, item_vars, signal_vars, gen_counters,
                   items_processed, score_vars>>

\* The archive is exhausted: both files are closed and main() returns.
Finish ==
    /\ pc = "read"
    /\ pc' = "done"
    /\ UNCHANGED <<config, sites, reader, item_vars, signal_vars, gen_counters,
                   items_processed, score_vars, out, log>>

Next ==
    \/ Start
    \/ ReadLine
    \/ Filter
    \/ Extract
    \/ PredictStub
    \/ Adjust
    \/ Aggregate
    \/ Write
    \/ Finish

Spec == Init /\ [][Next]_vars

(***************************************************************************)
(* One item through the tokenizing and scoring stages, for every score     *)
(* vector of the classifier: the run stands where the filter has let       *)
(* through the single item of a one-line archive, no filter being          *)
(* configured.                                                             *)
(***************************************************************************)
ScoreInit ==
    /\ pc = "extract"
    /\ qids = NoAllowSet
    /\ sites = NoSites
    /\ threshold \in Thresholds
    /\ model_labels \in LabelSets
    /\ \E b \in ScoreItems :
        /\ lines = <<ItemLine(b)>> /\ idx = 1 /\ item_json = b
        /\ qid = ItemBody(b).id
        /\ titles = Titles(ItemBody(b).sitelinks)
    /\ claims_str = <<>> /\ disamb_list = FALSE /\ has_coords = FALSE /\ human = FALSE
    /\ lbls = <<>> /\ scores = <<>> /\ results = <<>> /\ hlc_results = <<>>
    /\ items_written = 0 /\ indexerror = 0 /\ items_processed = 0
    /\ out = <<>> /\ log = <<>>

ScoreNext ==
    \/ Extract
    \/ PredictAny
    \/ Adjust
    \/ Aggregate
    \/ Write
    \/ Finish

ScoreSpec == ScoreInit /\ [][ScoreNext]_vars

(***************************************************************************)
(* What the archive read so far holds, stated without the code's parser.   *)
(***************************************************************************)
\* The item a line carries: a JSON object followed by an optional comma and
\* the newline; any other line is unparseable.
LineItem(line) ==
    IF \E b \in ItemNames : line \in {ItemLine(b), LastItemLine(b)} THEN line[2] ELSE ParseError

Unparseable(line) == LineItem(line) = ParseError

\* The filter lets the line's item through.
AcceptedLine(line) ==
    /\ ~Unparseable(line)
    /\ FilterVerdict(ItemBody(LineItem(line)), qids, sites) = "accept"

InFlight == pc \in {"filter", "extract", "yielded", "predicted", "adjusted", "aggregated"}

\* The lines the run is through with: all but the line whose item is being processed.
Settled == IF InFlight THEN SubSeq(lines, 1, Len(lines) - 1) ELSE lines

AcceptedLines(ls) == SelectSeq(ls, AcceptedLine)

\* An unparseable line between two accepted lines.
Sandwich(ls) ==
    \E i, j, k \in 1..Len(ls) :
        i < j /\ j < k /\ AcceptedLine(ls[i]) /\ Unparseable(ls[j]) /\ AcceptedLine(ls[k])

\* out holds one record per accepted line of ls, in their order.
RecordsFollow(ls) ==
    LET acc == AcceptedLines(ls)
    IN /\ Len(out) = Len(acc)
       /\ \A n \in 1..Len(acc) :
            /\ out[n].qid = ItemBody(LineItem(acc[n])).id
            /\ out[n].titles = Titles(ItemBody(LineItem(acc[n])).sitelinks)

ErrorsLogged(ls) ==
    {log[n].n : n \in {m \in 1..Len(log) : log[m].kind = "Error"}}
        = {j \in 1..Len(ls) : Unparseable(ls[j])}

\* This step reads an unparseable line.
ReadsUnparseable == pc = "read" /\ idx' = idx + 1 /\ Unparseable(lines'[idx'])

CountersUnchanged == UNCHANGED <<items_written, indexerror, items_processed>>

C1_SandwichState ==
    Sandwich(Settled) => RecordsFollow(Settled) /\ ErrorsLogged(Settled) /\ pc # "crashed"

C1_SkipStep ==
    ReadsUnparseable =>
        /\ pc' = "read"
        /\ out' = out
        /\ log' = Append(log, [kind |-> "Error", n |-> idx'])
        /\ CountersUnchanged

(***************************************************************************)
(* C1 (as amended). When an unparseable line sits between two accepted     *)
(* item lines the run does not stop at it: both accepted lines have their  *)
(* OutputRecord, in order, the unparseable line has none and is reported   *)
(* in the log with its line number. Reading it advances the line number    *)
(* only: no counter (items_written, indexerror, items_processed) changes.  *)
(***************************************************************************)
C1_MalformedLineSkipped == []C1_SandwichState /\ [][C1_SkipStep]_vars

\* C1 witness: a finished run over accepted, unparseable, accepted.
C1_Witness ==
    /\ pc = "done"
    /\ Len(lines) = 3
    /\ AcceptedLine(lines[1]) /\ Unparseable(lines[2]) /\ AcceptedLine(lines[3])
    /\ Len(out) = 2

\* C1 as stated: the unparseable line is skipped without a record and
\* increments a skip counter.
C1_SkipCounterIncremented ==
    [][ReadsUnparseable =>
        /\ pc' = "read"
        /\ out' = out
        /\ \/ indexerror' = indexerror + 1
           \/ items_written' = items_written + 1
           \/ items_processed' = items_processed + 1]_vars

IsPrefix(s, t) == Len(s) <= Len(t) /\ SubSeq(t, 1, Len(s)) = s

(***************************************************************************)
(* C2. The output file holds exactly one record per accepted item of the   *)
(* lines the run is through with, in archive order, and a step never       *)
(* changes, removes or reorders a record already written: out only grows   *)
(* at its end.                                                             *)
(***************************************************************************)
C2_AppendOnlyInOrder == []RecordsFollow(Settled) /\ [][IsPrefix(out, out')]_vars

\* C2 witness: a finished run that wrote two records of different items
\* around a rejected item.
C2_Witness ==
    /\ pc = "done"
    /\ Len(lines) = 3
    /\ AcceptedLine(lines[1]) /\ ~Unparseable(lines[2]) /\ ~AcceptedLine(lines[2])
    /\ AcceptedLine(lines[3])
    /\ Len(out) = 2 /\ out[1].qid # out[2].qid

(***************************************************************************)
(* C3. With an allow-set configured, with or without a site filter, the    *)
(* run proceeds normally and an item is let through if and only if its     *)
(* identifier is in the allow-set.                                         *)
(***************************************************************************)
C3_AllowSetDecides ==
    qids.given =>
        /\ pc # "crashed"
        /\ \A n \in 1..Len(Settled) :
            ~Unparseable(Settled[n]) =>
                (AcceptedLine(Settled[n]) <=> ItemBody(LineItem(Settled[n])).id \in qids.ids)

(***************************************************************************)
(* The scores of the item being processed.                                 *)
(***************************************************************************)
\* results holds the adjusted distribution.
Adjusted == pc \in {"adjusted", "aggregated"}

\* The classifier's own score of a label.
RawResults == ZipDict(lbls, scores)
Raw(k) == DictGet(RawResults, k)

\* The entries of a dict whose key, without the prefix, is the name.
Named(d, name) == {i \in 1..Len(d) : StripPrefix(d[i].k) = name}

\* The entries of a ranked list that carry the name.
Listed(ranked, name) == {i \in 1..Len(ranked) : ranked[i].l = name}

IsGeoName(name) == name # <<>> /\ name[1] = "Geography"

\* The record written for the item, once it is written.
JustWritten == pc \in {"read", "done"} /\ out # <<>>
LastRecord == out[Len(out)]

(***************************************************************************)
(* C4. For an item flagged is_disambiguation_or_list the probability of    *)
(* Compilation.List_Disambig in the adjusted distribution is exactly 1.0,  *)
(* overriding the classifier's own score for that label, and so is every   *)
(* Compilation.List_Disambig entry of the fine-label list emitted at       *)
(* threshold 0.                                                            *)
(***************************************************************************)
C4_ListDisambigForced ==
    /\ (Adjusted /\ disamb_list) =>
            /\ Named(results, ListDisambigKey) # {}
            /\ \A i \in Named(results, ListDisambigKey) : results[i].v = Scale
    /\ (JustWritten /\ disamb_list /\ threshold = 0) =>
            /\ Listed(LastRecord.predicted_mid_labels, ListDisambigKey) # {}
            /\ \A i \in Listed(LastRecord.predicted_mid_labels, ListDisambigKey) :
                    LastRecord.predicted_mid_labels[i].p = RoundUnit

C6_GeoRule ==
    Adjusted =>
        \A i \in 1..Len(results) :
            IsGeoName(StripPrefix(results[i].k)) =>
                /\ DictHas(RawResults, results[i].k)
                /\ IF has_coords
                   THEN results[i].v = Raw(results[i].k)
                   ELSE results[i].v <= Max(0, Raw(results[i].k) - Reduction)

\* C6 witness: an item without coordinates whose Geography.Europe score is
\* reduced from 1.0 to 0.499.
C6_Witness ==
    /\ Adjusted /\ ~has_coords
    /\ Raw(EuropeLabel) = 1000
    /\ DictGet(results, EuropeLabel) = 499

Under(c) == {i \in 1..Len(results) : ft_to_toplevel(results[i].k) = c}
Categories == {ft_to_toplevel(results[i].k) : i \in 1..Len(results)}

RECURSIVE ProductOfComplements(_)
ProductOfComplements(S) ==
    IF S = {} THEN 1
    ELSE LET i == CHOOSE j \in S : TRUE
         IN (Scale - results[i].v) * ProductOfComplements(S \ {i})

RECURSIVE ScalePower(_)
ScalePower(n) == IF n = 0 THEN 1 ELSE Scale * ScalePower(n - 1)

(***************************************************************************)
(* C7. The aggregated probability of every top-level category C is         *)
(* 1 - prod (1 - P(label)) over the labels of the adjusted distribution    *)
(* under C; every label falls under exactly one category, every category   *)
(* is aggregated once; STEM.Technology = 0.6 and STEM.Engineering = 0.4    *)
(* give STEM = 0.76.                                                       *)
(***************************************************************************)
C7_AggregationIdentity ==
    pc = "aggregated" =>
        /\ Len(hlc_results) = Cardinality(Categories)
        /\ \A c \in Categories :
            LET d == ScalePower(Cardinality(Under(c)))
            IN /\ DictHas(hlc_results, c)
               /\ DictGet(hlc_results, c) = <<d - ProductOfComplements(Under(c)), d>>
        /\ \A i \in 1..Len(results) : Cardinality({c \in Categories : i \in Under(c)}) = 1
        /\ (DictGet(results, TechnologyLabel) = 600 /\ DictGet(results, EngineeringLabel) = 400)
                => DictGet(hlc_results, <<"STEM">>) = <<760000, 1000000>>

\* C7 witness: STEM aggregates 0.6 and 0.4 to 0.76, Compilation aggregates
\* two entries.
C7_Witness ==
    /\ pc = "aggregated"
    /\ DictGet(hlc_results, <<"STEM">>) = <<760000, 1000000>>
    /\ Cardinality(Under(<<"Compilation">>)) = 2

\* n / d > t / RoundUnit
FracAbove(f, t) ==
    IF f[2] <= RoundUnit THEN f[1] * (RoundUnit \div f[2]) > t
    ELSE f[1] > t * (f[2] \div RoundUnit)

Emits(ranked, k, f) == \E i \in 1..Len(ranked) : ranked[i] = [l |-> StripPrefix(k), p |-> Round4(f)]

RoundedPasses(f) == threshold = 0 \/ Round4(f) > threshold
ExactPasses(f) == threshold = 0 \/ FracAbove(f, threshold)

\* ranked holds the entries of d that pass, on their rounded or on their
\* exact probability, and nothing else.
EmitsWhen(ranked, d, rounded) ==
    /\ \A i \in 1..Len(d) :
        Emits(ranked, d[i].k, d[i].v)
            <=> IF rounded THEN RoundedPasses(d[i].v) ELSE ExactPasses(d[i].v)
    /\ \A j \in 1..Len(ranked) : \E i \in 1..Len(d) :
            ranked[j] = [l |-> StripPrefix(d[i].k), p |-> Round4(d[i].v)]

Qualifies(st) == st.type = "statement" /\ st.datatype = "wikibase-item" /\ st.value # Missing

QualifyingStatements(claims) ==
    {<<i, j>> \in (1..Len(claims)) \X (1..2) :
        j <= Len(claims[i].statements) /\ Qualifies(claims[i].statements[j])}

Tokens(str) == {str[i] : i \in 1..Len(str)}

CurrentClaims == ItemBody(item_json).claims

(***************************************************************************)
(* C9 (as amended). The token sequence handed to the classifier is never   *)
(* empty; it is the sentinel "<NOCLAIM>" alone exactly for the items whose *)
(* claim map has no property. An item whose properties have no qualifying  *)
(* statement gets the bare property ids as its tokens, one per property.   *)
(***************************************************************************)
C9_TokensNeverEmpty ==
    pc = "yielded" =>
        /\ claims_str # <<>>
        /\ CurrentClaims = <<>> <=> claims_str = NoClaim
        /\ (CurrentClaims # <<>> /\ QualifyingStatements(CurrentClaims) = {}) =>
                /\ Len(claims_str) = Len(CurrentClaims)
                /\ Tokens(claims_str) = {CurrentClaims[i].property : i \in 1..Len(CurrentClaims)}

\* C9 witness: an accepted item without any claim is yielded with the sentinel.
C9_Witness == pc = "yielded" /\ CurrentClaims = <<>> /\ claims_str = NoClaim

\* C9 as stated: every item with zero qualifying claim tuples gets the sentinel alone.
C9_SentinelWithoutQualifying ==
    pc = "yielded" =>
        /\ claims_str # <<>>
        /\ QualifyingStatements(CurrentClaims) = {} => claims_str = NoClaim

\* the default threshold in score units
Half == DefaultThreshold \div (RoundUnit \div Scale)

\* The entries of results a reduction was applied to.
Reduced ==
    {i \in 1..Len(results) :
        \/ human /\ results[i].k = LangLitLabel
        \/ ~has_coords /\ IsGeoKey(results[i].k)}

(***************************************************************************)
(* C10 (as amended). For a score p the human or no-coordinates rule        *)
(* reduces: if p <= 0.501 the reduced score is exactly 0; if p > 0.501 it  *)
(* is p - 0.501, strictly positive and strictly below the default          *)
(* threshold 0.5.                                                          *)
(***************************************************************************)
C10_ReductionFrom501 ==
    Adjusted =>
        \A i \in Reduced :
            LET p == Raw(results[i].k)
                v == results[i].v
            IN /\ p <= Reduction => v = 0
               /\ p > Reduction => v = p - Reduction /\ v > 0 /\ v < Half

\* C10 witness: scores of 0.501 and of 1.0 are reduced, to 0 and to 0.499.
C10_Witness ==
    /\ Adjusted /\ human /\ ~has_coords
    /\ Raw(LangLitLabel) = 501 /\ DictGet(results, LangLitLabel) = 0
    /\ Raw(EuropeLabel) = 1000 /\ DictGet(results, EuropeLabel) = 499

\* C10 as stated: scores at or below 0.5 go to 0, scores above 0.5 stay
\* strictly positive and below 0.5.
C10_ReductionFromHalf ==
    Adjusted =>
        \A i \in Reduced :
            LET p == Raw(results[i].k)
                v == results[i].v
            IN /\ p <= Half => v = 0
               /\ p > Half => v > 0 /\ v < Half

(***************************************************************************)
(* C11. For every item has_coordinates is set if and only if the           *)
(* coordinate-location property P625 is in the item's claim map, whether   *)
(* P625 contributed a qualifying (property, value_id) tuple or only the    *)
(* bare (property,) tuple.                                                 *)
(***************************************************************************)
C11_CoordsIffP625 ==
    pc = "yielded" =>
        (has_coords <=> \E i \in 1..Len(CurrentClaims) : CurrentClaims[i].property = "P625")

\* No two entries of the ranked list carry the same name.
NamesDistinct(ranked) ==
    \A i, j \in 1..Len(ranked) : ranked[i].l = ranked[j].l => i = j

(***************************************************************************)
(* C12. In every record written, for any item signals and any classifier   *)
(* distribution, each label name occurs at most once in the ranked         *)
(* fine-label list and each category at most once in the ranked top-level  *)
(* list; Compilation.List_Disambig and Person are never emitted both with  *)
(* the forced value 1 and with the classifier's own score.                 *)
(***************************************************************************)
C12_NamesOccurOnce ==
    JustWritten =>
        /\ NamesDistinct(LastRecord.predicted_mid_labels)
        /\ NamesDistinct(LastRecord.predicted_top_labels)

====
